---------------------------- MODULE Spec2Model ----------------------------
(***************************************************************************)
(* Model of the USD/MXN feature pipeline:                                  *)
(*   ModelEngineer.prepare_data / _create_sequences  (model_engineering.py)*)
(*   ModelEngineer.build_model / evaluate_model      (model_engineering.py)*)
(*   FeatureEngineer.calculate_*, process_sentiment_features               *)
(*                                                   (feature_engineering) *)
(*   EnhancedMarketProcessor.process_market_data and the four steps it     *)
(*   calls                                           (processors.py)       *)
(*   MarketDataCollector.get_yahoo_data              (collectors.py)       *)
(*                                                                         *)
(* Data representation.                                                    *)
(*   cell      << >> is NaN (pandas' null), <<v>> is the number v          *)
(*   column    [name, numeric, vals]: vals is a sequence of cells          *)
(*   frame     [index, cols]: a DataFrame; index is its row labels         *)
(*   matrix    a sequence of rows, each a sequence of numbers (numpy array)*)
(*   fraction  <<n, d>> in lowest terms with d > 0: the exact value of a   *)
(*             min-max scaled cell (floating point is not modelled)        *)
(***************************************************************************)
EXTENDS Integers, Sequences, FiniteSets, TLC

VARIABLES
    \* ---- arguments of ModelEngineer.prepare_data
    technical_data, statistical_data, sentiment_data, target_col, test_size,
    \* ---- fields of ModelEngineer
    sequence_length, scalers,
    \* ---- locals of prepare_data, as observed when the call ends
    features, X_scaled, y_scaled, X_seq, y_seq,
    \* ---- what prepare_data hands back
    train_data, test_data, outcome,
    \* ---- self.model; the prepare_data calls made so far, each with how it
    \* ---- ended, the frame it assembled, its target_col and the test_data it
    \* ---- handed back; the last evaluate_model call: its arguments, what
    \* ---- model.predict gave, what the call handed back and how it ended
    model, history, eval_args, predictions, predictions_unscaled, eval_outcome,
    \* ---- the frame handed to FeatureEngineer / EnhancedMarketProcessor, the
    \* ---- periods (windows) argument, the frame handed back, the calls made
    df, periods, result, stage,
    \* ---- whether the installed pandas forces skew/kurt of a uniform window
    uniform_forced,
    \* ---- FeatureEngineer.scaler
    scaler,
    \* ---- the flags given to process_market_data, the diagnostics it hands
    \* ---- back, and the exception that left the last call ("none" if none)
    calculate_stats, include_technicals, stats_dict, error,
    \* ---- MarketDataCollector.get_yahoo_data: its tickers argument, what the
    \* ---- price service answers for each ticker, the frame handed back and
    \* ---- how the call ended
    tickers, responses, yahoo_data, yahoo_outcome

me_vars == <<technical_data, statistical_data, sentiment_data, target_col, test_size,
             sequence_length, scalers, features, X_scaled, y_scaled, X_seq, y_seq,
             train_data, test_data, outcome,
             model, history, eval_args, predictions, predictions_unscaled,
             eval_outcome>>
\* what no call changes: arguments and the library behaviour
fe_args == <<periods, uniform_forced, calculate_stats, include_technicals>>
fe_vars == <<df, periods, result, stage, uniform_forced, scaler,
             calculate_stats, include_technicals, stats_dict, error>>

co_vars == <<tickers, responses, yahoo_data, yahoo_outcome>>

vars == <<technical_data, statistical_data, sentiment_data, target_col, test_size,
          sequence_length, scalers, features, X_scaled, y_scaled, X_seq, y_seq,
          train_data, test_data, outcome,
          model, history, eval_args, predictions, predictions_unscaled, eval_outcome,
          df, periods, result, stage, uniform_forced,
          scaler, calculate_stats, include_technicals, stats_dict, error,
          tickers, responses, yahoo_data, yahoo_outcome>>

-----------------------------------------------------------------------------
(* Bounds of the explored inputs *)

\* rows of the frames in the column-assembly family
MaxAsmRows == 2
\* rows of the frames in the windowing/splitting family
MaxRows == 4
\* largest sequence length tried besides the default
MaxSeqLen == 2
\* prepare_data calls made on one ModelEngineer
MaxCalls == 2

\* self.sequence_length as set by __init__
DefaultSequenceLength == 10

-----------------------------------------------------------------------------
(* Generic helpers *)

Null == << >>
Some(v) == <<v>>
IsNull(c) == c = Null

Range(s) == {s[i] : i \in DOMAIN s}
SetMax(S) == CHOOSE x \in S : \A y \in S : y <= x
SetMin(S) == CHOOSE x \in S : \A y \in S : x <= y
Abs(x) == IF x < 0 THEN -x ELSE x

RECURSIVE GCD(_, _)
GCD(a, b) == IF b = 0 THEN a ELSE GCD(b, a % b)

\* n/d in lowest terms, d # 0
Frac(n, d) ==
    LET s == IF d < 0 THEN -1 ELSE 1
        g == GCD(Abs(n), Abs(d))
    IN  <<(s * n) \div g, (s * d) \div g>>

\* the elements of a finite set of integers, ascending
SortedSeq(S) ==
    [k \in 1..Cardinality(S) |->
        CHOOSE x \in S : Cardinality({y \in S : y < x}) = k - 1]

\* s restricted to the positions in P, order kept
Pick(s, P) == LET idx == SortedSeq(P) IN [k \in 1..Len(idx) |-> s[idx[k]]]

RECURSIVE Flatten(_)
Flatten(ss) == IF ss = << >> THEN << >> ELSE Head(ss) \o Flatten(Tail(ss))

-----------------------------------------------------------------------------
(* pandas operations used by prepare_data *)

\* DataFrame.select_dtypes(include=[np.number])
select_dtypes_number(fr) ==
    [index |-> fr.index, cols |-> SelectSeq(fr.cols, LAMBDA c : c.numeric)]

\* the position of label l in an index
Pos(index, l) == CHOOSE i \in DOMAIN index : index[i] = l

\* pd.concat(frs, axis=1): outer join on the index; a cell whose frame has no
\* row for a label is NaN
concat(frs) ==
    LET labels == UNION {Range(frs[k].index) : k \in DOMAIN frs}
        index  == SortedSeq(labels)
        Reindex(fr, c) ==
            [name |-> c.name, numeric |-> c.numeric,
             vals |-> [r \in DOMAIN index |->
                         IF index[r] \in Range(fr.index)
                         THEN c.vals[Pos(fr.index, index[r])]
                         ELSE Null]]
    IN  [index |-> index,
         cols  |-> Flatten([k \in DOMAIN frs |->
                     [j \in DOMAIN frs[k].cols |-> Reindex(frs[k], frs[k].cols[j])]])]

\* the duplicated-column filter left out: every column survives
drop_duplicated_columns_Omitted(fr) == fr

\* duplicated(keep='last'): the rightmost occurrence of a name survives
drop_duplicated_columns_KeepLast(fr) ==
    [index |-> fr.index,
     cols  |-> Pick(fr.cols, {j \in DOMAIN fr.cols :
                     \A i \in (j + 1)..Len(fr.cols) : fr.cols[i].name # fr.cols[j].name})]

\* features.loc[:, ~features.columns.duplicated()]: duplicated() marks every
\* occurrence of a name after its first
drop_duplicated_columns(fr) ==
    [index |-> fr.index,
     cols  |-> Pick(fr.cols, {j \in DOMAIN fr.cols :
                     \A i \in 1..(j - 1) : fr.cols[i].name # fr.cols[j].name})]

\* DataFrame.dropna(): drops every row holding a NaN in any column
dropna(fr) ==
    LET keep == {r \in DOMAIN fr.index :
                    \A j \in DOMAIN fr.cols : ~IsNull(fr.cols[j].vals[r])}
    IN  [index |-> Pick(fr.index, keep),
         cols  |-> [j \in DOMAIN fr.cols |->
                     [name |-> fr.cols[j].name, numeric |-> fr.cols[j].numeric,
                      vals |-> Pick(fr.cols[j].vals, keep)]]]

ColumnNames(fr) == [j \in DOMAIN fr.cols |-> fr.cols[j].name]
HasColumn(fr, name) == \E j \in DOMAIN fr.cols : fr.cols[j].name = name

\* fr[name] on a frame whose column names are unique
GetColumn(fr, name) == fr.cols[CHOOSE j \in DOMAIN fr.cols : fr.cols[j].name = name]

\* fr.drop(name, axis=1)
drop_column(fr, name) ==
    [index |-> fr.index,
     cols  |-> Pick(fr.cols, {j \in DOMAIN fr.cols : fr.cols[j].name # name})]

\* the numbers of a NaN-free frame, row by row (what scikit-learn receives)
Values(fr) ==
    [r \in DOMAIN fr.index |-> [j \in DOMAIN fr.cols |-> fr.cols[j].vals[r][1]]]

-----------------------------------------------------------------------------
(* sklearn.preprocessing.MinMaxScaler, feature_range (0, 1) *)

\* fit: per-column data_min_ / data_max_ over the rows presented
MinMaxFit(M, ncols) ==
    [fitted   |-> TRUE,
     data_min |-> [j \in 1..ncols |-> SetMin({M[r][j] : r \in DOMAIN M})],
     data_max |-> [j \in 1..ncols |-> SetMax({M[r][j] : r \in DOMAIN M})]]

\* transform: (x - data_min) * scale_, scale_ = 1 / (data_max - data_min), and a
\* zero data range is replaced by 1 (_handle_zeros_in_scale)
MinMaxTransformCell(p, j, x) ==
    LET rng == p.data_max[j] - p.data_min[j]
    IN  Frac(x - p.data_min[j], IF rng = 0 THEN 1 ELSE rng)

MinMaxTransform(p, M) ==
    [r \in DOMAIN M |-> [j \in DOMAIN M[r] |-> MinMaxTransformCell(p, j, M[r][j])]]

\* inverse_transform without the offset
MinMaxInverseCell_NoOffset(p, j, s) ==
    LET rng == p.data_max[j] - p.data_min[j]
    IN  Frac(s[1] * (IF rng = 0 THEN 1 ELSE rng), s[2])

\* inverse_transform: (s - min_) / scale_ with min_ = -data_min * scale_, that
\* is s * (data_max - data_min) + data_min, a zero data range replaced by 1 as
\* in transform; s is the fraction <<n, d>>
MinMaxInverseCell(p, j, s) ==
    LET rng == p.data_max[j] - p.data_min[j]
    IN  Frac(s[1] * (IF rng = 0 THEN 1 ELSE rng) + p.data_min[j] * s[2], s[2])

MinMaxInverseTransform(p, M) ==
    [r \in DOMAIN M |-> [j \in DOMAIN M[r] |-> MinMaxInverseCell(p, j, M[r][j])]]

\* MinMaxScaler() before fit
Unfitted == [fitted |-> FALSE, data_min |-> << >>, data_max |-> << >>]

-----------------------------------------------------------------------------
(* ModelEngineer *)

\* an empty frame / array, and the value of a name not yet bound
NoFrame == [index |-> << >>, cols |-> << >>]
NoData == [X |-> << >>, y |-> << >>, features |-> << >>]

\* _create_sequences with the target taken from the window's own last row
create_sequences_TargetInWindow(X, y, L) ==
    [X |-> [i \in 1..(Len(X) - L) |-> SubSeq(X, i, i + L - 1)],
     y |-> [i \in 1..(Len(X) - L) |-> y[i + L - 1]]]

\* _create_sequences with every window starting one row late
create_sequences_ShiftedWindow(X, y, L) ==
    [X |-> [i \in 1..(Len(X) - L) |-> SubSeq(X, i + 1, i + L)],
     y |-> [i \in 1..(Len(X) - L) |-> y[i + L]]]

\* _create_sequences: for i in range(len(X) - L): X[i:i+L], y[i+L]
\* (rows are numbered from 1 here, so window i is rows i..i+L-1, target i+L)
create_sequences(X, y, L) ==
    [X |-> [i \in 1..(Len(X) - L) |-> SubSeq(X, i, i + L - 1)],
     y |-> [i \in 1..(Len(X) - L) |-> y[i + L]]]

\* the cut rounded up instead of truncated
TrainSize_RoundUp(n, tsize) == (n * (tsize[2] - tsize[1]) + tsize[2] - 1) \div tsize[2]

\* int(len(X_seq) * (1 - test_size)), test_size the fraction <<p, q>>
TrainSize(n, tsize) == (n * (tsize[2] - tsize[1])) \div tsize[2]

\* prepare_data lines 35-46: concat the numeric columns, drop duplicated
\* column names, drop rows holding NaN
assemble(tech, stat, sent) ==
    LET first == concat(<<select_dtypes_number(tech), select_dtypes_number(stat)>>)
        all   == IF sent # << >>
                 THEN concat(<<first, select_dtypes_number(sent[1])>>)
                 ELSE first
    IN  dropna(drop_duplicated_columns(all))

\* prepare_data with scalers that are fitted once and reused by later calls
scale_and_split_FitOnce(f, tcol, tsize, L, sc) ==
    IF ~HasColumn(f, tcol)
    THEN \* line 49: features[target_col] raises KeyError
         [outcome |-> "KeyError", scalers |-> sc,
          X_scaled |-> << >>, y_scaled |-> << >>, X_seq |-> << >>, y_seq |-> << >>,
          train_data |-> NoData, test_data |-> NoData]
    ELSE
    LET y == GetColumn(f, tcol)
        X == drop_column(f, tcol)
        fresh == [features |-> <<Unfitted>>, target |-> <<Unfitted>>]
    IN  IF Len(X.index) = 0 \/ Len(X.cols) = 0
        THEN \* line 56: fit_transform rejects an array with 0 samples or 0
             \* features (ValueError); both scalers were replaced on lines 53-54
             [outcome |-> "ValueError", scalers |-> fresh,
              X_scaled |-> << >>, y_scaled |-> << >>, X_seq |-> << >>, y_seq |-> << >>,
              train_data |-> NoData, test_data |-> NoData]
        ELSE
        LET Xv  == Values(X)
            yv  == Values([index |-> f.index, cols |-> <<y>>])
            fs  == IF sc.features # << >> /\ sc.features[1].fitted
                   THEN sc.features[1] ELSE MinMaxFit(Xv, Len(X.cols))
            ts  == IF sc.target # << >> /\ sc.target[1].fitted
                   THEN sc.target[1] ELSE MinMaxFit(yv, 1)
            Xs  == MinMaxTransform(fs, Xv)
            ys  == MinMaxTransform(ts, yv)
            sq  == create_sequences(Xs, ys, L)
            train_size == TrainSize(Len(sq.X), tsize)
        IN  [outcome |-> "returned",
             scalers |-> [features |-> <<fs>>, target |-> <<ts>>],
             X_scaled |-> Xs, y_scaled |-> ys, X_seq |-> sq.X, y_seq |-> sq.y,
             train_data |-> [X |-> SubSeq(sq.X, 1, train_size),
                             y |-> SubSeq(sq.y, 1, train_size),
                             features |-> ColumnNames(X)],
             test_data  |-> [X |-> SubSeq(sq.X, train_size + 1, Len(sq.X)),
                             y |-> SubSeq(sq.y, train_size + 1, Len(sq.y)),
                             features |-> ColumnNames(X)]]

\* prepare_data lines 48-77 on the assembled frame f; sc is self.scalers on entry
scale_and_split(f, tcol, tsize, L, sc) ==
    IF ~HasColumn(f, tcol)
    THEN \* line 49: features[target_col] raises KeyError
         [outcome |-> "KeyError", scalers |-> sc,
          X_scaled |-> << >>, y_scaled |-> << >>, X_seq |-> << >>, y_seq |-> << >>,
          train_data |-> NoData, test_data |-> NoData]
    ELSE
    LET y == GetColumn(f, tcol)
        X == drop_column(f, tcol)
        fresh == [features |-> <<Unfitted>>, target |-> <<Unfitted>>]
    IN  IF Len(X.index) = 0 \/ Len(X.cols) = 0
        THEN \* line 56: fit_transform rejects an array with 0 samples or 0
             \* features (ValueError); both scalers were replaced on lines 53-54
             [outcome |-> "ValueError", scalers |-> fresh,
              X_scaled |-> << >>, y_scaled |-> << >>, X_seq |-> << >>, y_seq |-> << >>,
              train_data |-> NoData, test_data |-> NoData]
        ELSE
        LET Xv  == Values(X)
            yv  == Values([index |-> f.index, cols |-> <<y>>])
            fs  == MinMaxFit(Xv, Len(X.cols))
            ts  == MinMaxFit(yv, 1)
            Xs  == MinMaxTransform(fs, Xv)
            ys  == MinMaxTransform(ts, yv)
            sq  == create_sequences(Xs, ys, L)
            train_size == TrainSize(Len(sq.X), tsize)
        IN  [outcome |-> "returned",
             scalers |-> [features |-> <<fs>>, target |-> <<ts>>],
             X_scaled |-> Xs, y_scaled |-> ys, X_seq |-> sq.X, y_seq |-> sq.y,
             train_data |-> [X |-> SubSeq(sq.X, 1, train_size),
                             y |-> SubSeq(sq.y, 1, train_size),
                             features |-> ColumnNames(X)],
             test_data  |-> [X |-> SubSeq(sq.X, train_size + 1, Len(sq.X)),
                             y |-> SubSeq(sq.y, train_size + 1, Len(sq.y)),
                             features |-> ColumnNames(X)]]

\* ModelEngineer.prepare_data, the whole call
PrepareData ==
    /\ outcome = "pending"
    /\ LET f == assemble(technical_data, statistical_data, sentiment_data)
           r == scale_and_split(f, target_col, test_size, sequence_length, scalers)
       IN  /\ features' = f
           /\ scalers' = r.scalers
           /\ X_scaled' = r.X_scaled
           /\ y_scaled' = r.y_scaled
           /\ X_seq' = r.X_seq
           /\ y_seq' = r.y_seq
           /\ train_data' = r.train_data
           /\ test_data' = r.test_data
           /\ outcome' = r.outcome
           /\ history' = Append(history, [outcome |-> r.outcome, features |-> f,
                                          target_col |-> target_col,
                                          test_data |-> r.test_data])
    /\ UNCHANGED <<technical_data, statistical_data, sentiment_data, target_col,
                   test_size, sequence_length>>
    /\ UNCHANGED <<model, eval_args, predictions, predictions_unscaled, eval_outcome>>
    /\ UNCHANGED fe_vars
    /\ UNCHANGED co_vars

\* the data sets handed to successive prepare_data calls: a target series
\* (constant, rising, falling, mixed) and an sma_5 column beside it
TargetSeries == {<<1, 1, 1>>, <<0, 1, 2>>, <<3, 2, 1>>, <<0, 4, 2>>}
CallFrame(nm, vs) ==
    [index |-> [i \in DOMAIN vs |-> i - 1],
     cols  |-> <<[name |-> nm, numeric |-> TRUE, vals |-> [i \in DOMAIN vs |-> <<vs[i]>>]]>>]
CallData(v, tcol) ==
    [technical_data   |-> CallFrame("usdmxn_fix", v),
     statistical_data |-> CallFrame("sma_5", [i \in DOMAIN v |-> v[i] + i]),
     target_col       |-> tcol]
\* ... besides them a call without rows and a call naming an absent target
CallArguments ==
    {CallData(v, "usdmxn_fix") : v \in TargetSeries \cup {<< >>}}
        \cup {CallData(<<0, 1, 2>>, "close")}

\* test arrays that no prepare_data call produced: one window of one row
ForeignTestData ==
    [X |-> << << << <<1, 2>> >> >> >>, y |-> << << <<1, 2>> >> >>, features |-> <<"sma_5">>]

\* the caller binds the arguments of its next prepare_data call; the object
\* and what the earlier calls handed back stay as they are
NewArguments ==
    /\ outcome # "pending"
    /\ Len(history) < MaxCalls
    /\ \E a \in CallArguments :
          /\ technical_data' = a.technical_data
          /\ statistical_data' = a.statistical_data
          /\ target_col' = a.target_col
    /\ outcome' = "pending"
    /\ UNCHANGED <<sentiment_data, test_size, sequence_length, scalers, features,
                   X_scaled, y_scaled, X_seq, y_seq, train_data, test_data>>
    /\ UNCHANGED <<model, history, eval_args, predictions, predictions_unscaled,
                   eval_outcome>>
    /\ UNCHANGED fe_vars
    /\ UNCHANGED co_vars

\* ModelEngineer.build_model: self.model = Sequential([...]), compiled
BuildModel ==
    /\ model' = "built"
    /\ UNCHANGED <<technical_data, statistical_data, sentiment_data, target_col,
                   test_size, sequence_length, scalers, features, X_scaled, y_scaled,
                   X_seq, y_seq, train_data, test_data, outcome>>
    /\ UNCHANGED <<history, eval_args, predictions, predictions_unscaled, eval_outcome>>
    /\ UNCHANGED fe_vars
    /\ UNCHANGED co_vars

\* the network is not modelled: model.predict hands back one number per
\* window, here the window's own target or one of PredictionValues for all
PredictionValues == {<<1, 2>>, <<3, 2>>}
predict(td) == {td.y} \cup {[i \in DOMAIN td.X |-> <<v>>] : v \in PredictionValues}

\* evaluate_model on self.model m and self.scalers sc; p is what model.predict
\* hands back. The metrics (line 149-150) are not modelled.
evaluate_model(m, sc, td, return_predictions, p) ==
    IF m = "None"
    THEN \* line 149: None has no attribute evaluate
         [outcome |-> "AttributeError", predictions |-> << >>, unscaled |-> << >>]
    ELSE IF ~return_predictions
    THEN \* line 157: return eval_metrics, None
         [outcome |-> "returned", predictions |-> << >>, unscaled |-> << >>]
    ELSE IF sc.target = << >>
    THEN \* line 154: self.scalers['target'] on a dict without that key
         [outcome |-> "KeyError", predictions |-> p, unscaled |-> << >>]
    ELSE IF ~sc.target[1].fitted
    THEN \* line 154: inverse_transform of a scaler that was never fitted
         [outcome |-> "NotFittedError", predictions |-> p, unscaled |-> << >>]
    ELSE [outcome |-> "returned", predictions |-> p,
          unscaled |-> MinMaxInverseTransform(sc.target[1], p)]

\* the test_data a caller can pass: what an earlier prepare_data call handed
\* back, or arrays it built by other means
HeldTestData ==
    {history[k].test_data : k \in {i \in DOMAIN history : history[i].outcome = "returned"}}
        \cup {ForeignTestData}

\* ModelEngineer.evaluate_model, the whole call
EvaluateModel ==
    /\ \E td \in HeldTestData, return_predictions \in BOOLEAN :
          \E p \in predict(td) :
             LET r == evaluate_model(model, scalers, td, return_predictions, p)
             IN  /\ eval_args' = [test_data |-> td,
                                  return_predictions |-> return_predictions,
                                  calls |-> Len(history)]
                 /\ predictions' = r.predictions
                 /\ predictions_unscaled' = r.unscaled
                 /\ eval_outcome' = r.outcome
    /\ UNCHANGED <<technical_data, statistical_data, sentiment_data, target_col,
                   test_size, sequence_length, scalers, features, X_scaled, y_scaled,
                   X_seq, y_seq, train_data, test_data, outcome>>
    /\ UNCHANGED <<model, history>>
    /\ UNCHANGED fe_vars
    /\ UNCHANGED co_vars

-----------------------------------------------------------------------------
(* The inputs explored *)

RangeIndex(n) == [i \in 1..n |-> i - 1]
NumColumn(nm, vs) == [name |-> nm, numeric |-> TRUE, vals |-> vs]
\* a non-numeric column (sentiment_category, session_time, ...): its content
\* never reaches the matrix, select_dtypes drops it
ObjColumn(nm, n) == [name |-> nm, numeric |-> FALSE, vals |-> [i \in 1..n |-> Some(0)]]
Frame1(n, c) == [index |-> RangeIndex(n), cols |-> <<c>>]

Vals == {0, 1, 2}
AsmCells == {Null, Some(0), Some(1)}
AsmNames == {"usdmxn_fix", "sma_5"}
TestSizes == {<<1, 5>>, <<1, 2>>}

Fresh ==
    /\ scalers = [features |-> << >>, target |-> << >>]
    /\ features = NoFrame
    /\ X_scaled = << >> /\ y_scaled = << >> /\ X_seq = << >> /\ y_seq = << >>
    /\ train_data = NoData /\ test_data = NoData
    /\ outcome = "pending"
    /\ model = "None" /\ history = << >>
    /\ eval_args = << >> /\ predictions = << >> /\ predictions_unscaled = << >>
    /\ eval_outcome = "idle"

\* blocks whose column names collide, with NaN cells, a sentiment block that is
\* absent, shorter than the others, or non-numeric
InitAssemble ==
    /\ \E n \in 0..MaxAsmRows :
        /\ \E nm \in AsmNames, vs \in [1..n -> AsmCells] :
              technical_data = Frame1(n, NumColumn(nm, vs))
        /\ \E nm \in AsmNames, vs \in [1..n -> AsmCells] :
              statistical_data = Frame1(n, NumColumn(nm, vs))
        /\ \/ sentiment_data = << >>
           \/ sentiment_data = <<Frame1(n, ObjColumn("sentiment_category", n))>>
           \/ \E m \in {k \in {n - 1, n} : k >= 0} :
                 \E vs \in [1..m -> AsmCells] :
                    sentiment_data = <<Frame1(m, NumColumn("sma_5", vs))>>
    /\ target_col = "usdmxn_fix"
    /\ test_size = <<1, 2>>
    /\ sequence_length = 2
    /\ Fresh

\* complete two-column matrices of every length up to MaxRows
InitSplit ==
    /\ \E n \in 0..MaxRows :
        /\ \E vs \in [1..n -> {Some(v) : v \in Vals}] :
              technical_data = Frame1(n, NumColumn("usdmxn_fix", vs))
        /\ \E vs \in [1..n -> {Some(0), Some(1)}] :
              statistical_data = Frame1(n, NumColumn("sma_5", vs))
    /\ sentiment_data = << >>
    /\ target_col = "usdmxn_fix"
    /\ test_size \in TestSizes
    /\ sequence_length \in 1..MaxSeqLen
    /\ Fresh

\* the 15-row matrix of the documented scenario, default sequence length
Pattern(a, b, n) == [t \in 1..n |-> Some((a * t * t + b * t) % 7)]
InitScenario ==
    /\ \E n \in {15}, a \in 0..2, b \in 0..2 :
          technical_data = Frame1(n, NumColumn("usdmxn_fix", Pattern(a, b, n)))
    /\ \E n \in {15}, a \in 0..2, b \in 0..2 :
          statistical_data = Frame1(n, NumColumn("sma_5", Pattern(a, b, n)))
    /\ sentiment_data = << >>
    /\ target_col = "usdmxn_fix"
    /\ test_size = <<1, 5>>
    /\ sequence_length = DefaultSequenceLength
    /\ Fresh

\* no FeatureEngineer / EnhancedMarketProcessor call is part of the run
CoIdle ==
    /\ tickers = << >> /\ responses = << >>
    /\ yahoo_data = NoFrame /\ yahoo_outcome = "idle"

FeIdle ==
    /\ df = NoFrame /\ periods = << >> /\ result = NoFrame
    /\ stage = "idle" /\ uniform_forced = FALSE
    /\ scaler = << >> /\ stats_dict = << >> /\ error = "none"
    /\ calculate_stats = TRUE /\ include_technicals = TRUE

Init == (InitAssemble \/ InitSplit \/ InitScenario) /\ FeIdle /\ CoIdle

Next == PrepareData

Spec == Init /\ [][Next]_vars

\* one ModelEngineer over several prepare_data calls, with build_model and
\* evaluate_model at any point
InitLifecycle ==
    /\ \E a \in CallArguments :
          /\ technical_data = a.technical_data
          /\ statistical_data = a.statistical_data
          /\ target_col = a.target_col
    /\ sentiment_data = << >>
    /\ test_size = <<1, 2>>
    /\ sequence_length = 1
    /\ Fresh
    /\ FeIdle /\ CoIdle

NextLifecycle == PrepareData \/ NewArguments \/ BuildModel \/ EvaluateModel

SpecLifecycle == InitLifecycle /\ [][NextLifecycle]_vars

-----------------------------------------------------------------------------
(* Claims about ModelEngineer, checked under Spec *)

Done == outcome # "pending"
Returned == outcome = "returned"
Raised == outcome \in {"KeyError", "ValueError"}
IsScenario ==
    /\ Len(features.index) = 15
    /\ sequence_length = 10
    /\ test_size = <<1, 5>>

\* C1: _create_sequences returns exactly max(0, rows - L) sequences; X[i] is
\* the L consecutive scaled feature rows i..i+L-1 in order and y[i] is the
\* scaled target at row i+L (i counted from 0).
C1_SequencesAreWindows ==
    Returned =>
        LET rows == Len(X_scaled)
            L    == sequence_length
        IN  /\ Len(X_seq) = (IF rows - L > 0 THEN rows - L ELSE 0)
            /\ Len(y_seq) = Len(X_seq)
            /\ \A i \in 0..(rows - L - 1) :
                 /\ Len(X_seq[i + 1]) = L
                 /\ \A k \in 0..(L - 1) : X_seq[i + 1][k + 1] = X_scaled[i + k + 1]
                 /\ y_seq[i + 1] = y_scaled[i + L + 1]

C1_Witness ==
    /\ Returned
    /\ sequence_length >= 2
    /\ Len(X_seq) >= 2
    /\ X_seq[1] # X_seq[2]
    /\ y_seq[1] # y_seq[2]
    /\ y_scaled[sequence_length] # y_scaled[sequence_length + 1]

\* C2: the N sequences are split by one contiguous cut at floor(N * (1 - f)):
\* train is the first floor(N * (1 - f)) sequences in order, test the rest in
\* order, so every sequence is in exactly one of them and every test sequence
\* starts after every train sequence; 15 rows, L = 10, f = 0.2 gives 4 / 1.
C2_ContiguousSplit ==
    Returned =>
        LET N   == Len(X_seq)
            cut == Len(train_data.X)
            p   == test_size[1]
            q   == test_size[2]
        IN  /\ cut * q <= N * (q - p)
            /\ N * (q - p) < (cut + 1) * q
            /\ Len(train_data.y) = cut
            /\ Len(test_data.X) = N - cut
            /\ Len(test_data.y) = N - cut
            /\ \A k \in 1..cut :
                 train_data.X[k] = X_seq[k] /\ train_data.y[k] = y_seq[k]
            /\ \A k \in 1..(N - cut) :
                 test_data.X[k] = X_seq[cut + k] /\ test_data.y[k] = y_seq[cut + k]
            /\ IsScenario => (N = 5 /\ cut = 4 /\ Len(test_data.X) = 1)

C2_Witness ==
    /\ Returned
    /\ Len(train_data.X) >= 1
    /\ Len(test_data.X) >= 1
    /\ (Len(X_seq) * (test_size[2] - test_size[1])) % test_size[2] # 0
    /\ train_data.X[Len(train_data.X)] # test_data.X[1]

\* the assembled frame with the cells of row r replaced by the numbers in row
ReplaceRow(f, r, row) ==
    [index |-> f.index,
     cols  |-> [j \in DOMAIN f.cols |->
                 [name |-> f.cols[j].name, numeric |-> f.cols[j].numeric,
                  vals |-> [i \in DOMAIN f.cols[j].vals |->
                              IF i = r THEN Some(row[j]) ELSE f.cols[j].vals[i]]]]]

\* the rows (numbered from 1) that no training sequence reads: training
\* sequence i reads rows i..i+L as window and target
TestOnlyRows ==
    {r \in DOMAIN features.index : r > Len(train_data.X) + sequence_length}

\* C3: the scaling parameters are fit on the training slice only, so the train
\* X and y that prepare_data returns do not depend on any row that belongs only
\* to test sequences: a matrix that differs from the assembled one in such a
\* row alone yields the identical train set.
C3_TrainIndependentOfTestRows ==
    Returned =>
        \A r \in TestOnlyRows :
            \A row \in [DOMAIN features.cols -> Vals] :
                scale_and_split(ReplaceRow(features, r, row), target_col, test_size,
                                sequence_length, scalers).train_data = train_data

\* C4: prepare_data fails whenever the assembled matrix has fewer than L + 1
\* rows; it never returns (empty) train/test sets for such an input.
C4_TooFewRowsFails ==
    (Done /\ Len(features.index) < sequence_length + 1) => Raised

\* the window w is rows lo..hi (numbered from 0) of the scaled matrix
WindowIsRows(w, lo, hi) ==
    /\ hi < Len(X_scaled)
    /\ w = [k \in 1..(hi - lo + 1) |-> X_scaled[lo + k]]

\* C5 as stated: with L = 10, 15 rows and test_fraction 0.2 the single test
\* sequence's window is rows 10..19 of the matrix.
C5_TestWindowRows10to19 ==
    (Returned /\ IsScenario) =>
        /\ Len(test_data.X) = 1
        /\ WindowIsRows(test_data.X[1], 10, 19)

\* C5 amended: with L = 10, 15 rows and test_fraction 0.2 the single test
\* sequence's window is rows 4..13 of the matrix and its target is row 14.
C5_TestWindowRows4to13 ==
    (Returned /\ IsScenario) =>
        /\ Len(test_data.X) = 1
        /\ Len(test_data.y) = 1
        /\ WindowIsRows(test_data.X[1], 4, 13)
        /\ test_data.y[1] = y_scaled[15]

C5_Witness ==
    /\ Returned
    /\ IsScenario
    /\ Len(test_data.X) = 1
    /\ X_scaled[4] # X_scaled[5]
    /\ X_scaled[14] # X_scaled[15]
    /\ y_scaled[14] # y_scaled[15]

\* the blocks handed to prepare_data, left to right, and their numeric columns
Blocks == <<technical_data, statistical_data>> \o sentiment_data
Occurrences ==
    {o \in (DOMAIN Blocks) \X (1..2) :
        o[2] \in DOMAIN Blocks[o[1]].cols /\ Blocks[o[1]].cols[o[2]].numeric}
OccName(o) == Blocks[o[1]].cols[o[2]].name
LeftOf(a, b) == a[1] < b[1] \/ (a[1] = b[1] /\ a[2] < b[2])
Leftmost(o) == \A o2 \in Occurrences : OccName(o2) = OccName(o) => ~LeftOf(o2, o)
Labels == UNION {Range(Blocks[k].index) : k \in DOMAIN Blocks}
\* the cell of occurrence o at index label l (NaN where its block has no row l)
OccCell(o, l) ==
    IF l \in Range(Blocks[o[1]].index)
    THEN Blocks[o[1]].cols[o[2]].vals[Pos(Blocks[o[1]].index, l)]
    ELSE Null

\* C6: the assembled feature matrix holds no null cell and no two columns of
\* the same name, whatever frames were passed.
C6_NoNullNoDuplicate ==
    Done =>
        /\ \A j \in DOMAIN features.cols :
             \A r \in DOMAIN features.index : ~IsNull(features.cols[j].vals[r])
        /\ \A i, j \in DOMAIN features.cols :
             i # j => features.cols[i].name # features.cols[j].name

C6_Witness ==
    /\ Done
    /\ \E a, b \in Occurrences : a # b /\ OccName(a) = OccName(b)
    /\ \E o \in Occurrences : \E l \in Labels : Leftmost(o) /\ IsNull(OccCell(o, l))
    /\ Len(features.cols) >= 2
    /\ Len(features.index) >= 1

\* C7: of the columns sharing a name the leftmost (technical, then statistical,
\* then sentiment) supplies the values and the later ones are dropped; rows
\* are dropped afterwards, so only a null in a surviving column removes a row.
C7_LeftmostKeptThenRowsDropped ==
    Done =>
        LET kept == {l \in Labels :
                       \A o \in Occurrences : Leftmost(o) => ~IsNull(OccCell(o, l))}
        IN  /\ features.index = SortedSeq(kept)
            /\ {features.cols[j].name : j \in DOMAIN features.cols}
                 = {OccName(o) : o \in Occurrences}
            /\ \A j \in DOMAIN features.cols :
                 \E o \in Occurrences :
                    /\ Leftmost(o)
                    /\ OccName(o) = features.cols[j].name
                    /\ \A r \in DOMAIN features.index :
                         features.cols[j].vals[r] = OccCell(o, features.index[r])
            /\ \A i, j \in DOMAIN features.cols :
                 i < j => \E a, b \in Occurrences :
                    /\ Leftmost(a) /\ Leftmost(b) /\ LeftOf(a, b)
                    /\ OccName(a) = features.cols[i].name
                    /\ OccName(b) = features.cols[j].name

C7_Witness ==
    /\ Done
    /\ \E a, b \in Occurrences : \E l \in Range(features.index) :
          /\ Leftmost(a) /\ LeftOf(a, b) /\ OccName(a) = OccName(b)
          /\ IsNull(OccCell(b, l))
          /\ \E l2 \in Range(features.index) :
                ~IsNull(OccCell(b, l2)) /\ OccCell(b, l2) # OccCell(a, l2)

\* C8: prepare_data fails if, after the null rows are dropped, the target
\* column is absent from the assembled matrix or fewer than L rows remain.
C8_MissingTargetOrShortFails ==
    (Done /\ (\/ ~HasColumn(features, target_col)
              \/ Len(features.index) < sequence_length)) => Raised

-----------------------------------------------------------------------------
(* Series arithmetic for the feature columns.                              *)
(*                                                                         *)
(* A cell of a feature frame is << >> (NaN) or an exact fraction <<n, d>>. *)
(* Prices are powers of two, so np.log(price[t] / price[t-1]) is a whole   *)
(* multiple of ln 2: a log return is stored in units of ln 2.  A column    *)
(* holding a standard deviation stores its square (the variance), a column *)
(* holding a skewness stores sign(g) * g^2: both are exact fractions and   *)
(* keep the sign, the zero and the null-ness of the value they stand for.  *)
(* The two infinities of float arithmetic are <<1, 0>> and <<-1, 0>>: they *)
(* are values, not nulls.                                                  *)

FInt(n) == <<n, 1>>
FAdd(a, b) == Frac(a[1] * b[2] + b[1] * a[2], a[2] * b[2])
FSub(a, b) == Frac(a[1] * b[2] - b[1] * a[2], a[2] * b[2])
FMul(a, b) ==
    LET g1 == GCD(Abs(a[1]), Abs(b[2]))
        g2 == GCD(Abs(b[1]), Abs(a[2]))
    IN  Frac((a[1] \div g1) * (b[1] \div g2), (a[2] \div g2) * (b[2] \div g1))
FDiv(a, b) == FMul(a, Frac(b[2], b[1]))
FPos(a) == a[1] > 0
FNeg(a) == a[1] < 0

RECURSIVE FSum(_)
FSum(s) == IF s = << >> THEN FInt(0) ELSE FAdd(Head(s), FSum(Tail(s)))

RECURSIVE Log2(_)
Log2(n) == IF n <= 1 THEN 0 ELSE 1 + Log2(n \div 2)

PosInf == <<1, 0>>
NegInf == <<-1, 0>>
IsInf(c) == c # Null /\ c[2] = 0
Finite(c) == c # Null /\ c[2] # 0
Sign(c) == IF c[1] > 0 THEN 1 ELSE IF c[1] < 0 THEN -1 ELSE 0

\* np.log, in units of ln 2: NaN for a NaN or a negative argument (a warning,
\* no exception), -inf for 0, inf for inf, and for a positive ratio of powers
\* of two the difference of the exponents
np_log(q) ==
    IF IsNull(q) \/ q[1] < 0 THEN Null
    ELSE IF IsInf(q) THEN PosInf
    ELSE IF q[1] = 0 THEN NegInf
    ELSE FInt(Log2(q[1]) - Log2(q[2]))

\* element-wise float arithmetic: NaN in, NaN out; x / 0 is inf with the sign
\* of x and 0 / 0 is NaN; inf - inf and inf / inf are NaN
CellDiv(a, b) ==
    IF IsNull(a) \/ IsNull(b) THEN Null
    ELSE IF IsInf(a)
         THEN (IF IsInf(b) THEN Null ELSE <<Sign(a) * (IF b[1] < 0 THEN -1 ELSE 1), 0>>)
    ELSE IF IsInf(b) THEN FInt(0)
    ELSE IF b[1] = 0 THEN (IF a[1] = 0 THEN Null ELSE <<Sign(a), 0>>)
    ELSE FDiv(a, b)
CellAdd(a, b) ==
    IF IsNull(a) \/ IsNull(b) THEN Null
    ELSE IF IsInf(a) THEN (IF IsInf(b) /\ b # a THEN Null ELSE a)
    ELSE IF IsInf(b) THEN b
    ELSE FAdd(a, b)
CellSub(a, b) == IF IsNull(b) THEN Null ELSE CellAdd(a, <<-b[1], b[2]>>)

\* Series.shift(k), k >= 0: row t takes the value of row t - k
shift_Forward(s, k) == [t \in DOMAIN s |-> IF t + k \in DOMAIN s THEN s[t + k] ELSE Null]
shift(s, k) == [t \in DOMAIN s |-> IF t - k \in DOMAIN s THEN s[t - k] ELSE Null]

\* Series.diff()
diff(s) == [t \in DOMAIN s |-> CellSub(s[t], shift(s, 1)[t])]

\* rolling(window=w) with min_periods = w: row t has a value only when the w
\* rows t-w+1..t exist and none is NaN (rolling turns inf into NaN first)
FullWindow(s, w, t) == t >= w /\ \A i \in (t - w + 1)..t : Finite(s[i])
WindowAt(s, w, t) == SubSeq(s, t - w + 1, t)

RECURSIVE SumInt(_)
SumInt(s) == IF s = << >> THEN 0 ELSE Head(s) + SumInt(Tail(s))
RECURSIVE GcdSeq(_)
GcdSeq(s) == IF s = << >> THEN 0 ELSE GCD(Abs(Head(s)), GcdSeq(Tail(s)))
RECURSIVE LcmDen(_)
LcmDen(xs) ==
    IF xs = << >> THEN 1
    ELSE LET m == LcmDen(Tail(xs)) IN (Head(xs)[2] \div GCD(Head(xs)[2], m)) * m

\* the deviations of the observations xs from their mean, as whole numbers d
\* and a common factor: xs[i] - mean = d[i] * unit
Deviations(xs) ==
    LET n == Len(xs)
        D == LcmDen(xs)
        a == [i \in DOMAIN xs |-> xs[i][1] * (D \div xs[i][2])]
        S == SumInt(a)
        d == [i \in DOMAIN xs |-> n * a[i] - S]
        g == IF GcdSeq(d) = 0 THEN 1 ELSE GcdSeq(d)
    IN  [d |-> [i \in DOMAIN xs |-> d[i] \div g], unit |-> Frac(g, n * D)]

\* sum of the k-th powers of the whole-number deviations, k in 2..4
PowerSum(d, k) ==
    SumInt([i \in DOMAIN d |->
              IF k = 2 THEN d[i] * d[i]
              ELSE IF k = 3 THEN d[i] * d[i] * d[i]
              ELSE d[i] * d[i] * d[i] * d[i]])

\* sample variance, ddof = 1
Variance(xs) ==
    LET dv == Deviations(xs)
    IN  FMul(Frac(PowerSum(dv.d, 2), Len(xs) - 1), FMul(dv.unit, dv.unit))

\* m3 * |m3| / m2^3 and m4 / m2^2 of the biased central moments m2, m3, m4
\* (both are unchanged by a common factor of the deviations)
SkewRatio(xs) ==
    LET d  == Deviations(xs).d
        S2 == PowerSum(d, 2)
        S3 == PowerSum(d, 3)
    IN  FMul(Frac(Len(xs) * S3, S2), Frac(Abs(S3), S2 * S2))
KurtRatio(xs) ==
    LET d  == Deviations(xs).d
        S2 == PowerSum(d, 2)
    IN  FMul(Frac(Len(xs), S2), Frac(PowerSum(d, 4), S2))
Uniform(xs) == \A i \in DOMAIN xs : xs[i] = xs[1]

rolling_mean(s, w) ==
    [t \in DOMAIN s |->
        IF FullWindow(s, w, t) THEN FDiv(FSum(WindowAt(s, w, t)), FInt(w)) ELSE Null]

\* rolling(window=w, min_periods=1).std(): any row with two observations
rolling_std_MinPeriods1(s, w) ==
    [t \in DOMAIN s |->
        LET lo == IF t - w + 1 < 1 THEN 1 ELSE t - w + 1
            xs == SelectSeq(SubSeq(s, lo, t), Finite)
        IN  IF Len(xs) < 2 THEN Null ELSE Variance(xs)]

\* rolling(window=w).std(), ddof = 1 (stored squared): NaN for one observation
rolling_std(s, w) ==
    [t \in DOMAIN s |->
        IF FullWindow(s, w, t) /\ w >= 2 THEN Variance(WindowAt(s, w, t)) ELSE Null]

\* rolling(window=w).skew() (stored as sign * square): NaN under 3
\* observations; a window of equal values gives 0.0 where pandas forces the
\* uniform case and NaN where it does not; otherwise
\* sqrt(n(n-1)) / (n-2) * m3 / m2^1.5
rolling_skew(s, w) ==
    [t \in DOMAIN s |->
        IF ~(FullWindow(s, w, t) /\ w >= 3) THEN Null
        ELSE LET xs == WindowAt(s, w, t)
             IN  IF Uniform(xs)
                 THEN (IF uniform_forced THEN FInt(0) ELSE Null)
                 ELSE FMul(Frac(w * (w - 1), (w - 2) * (w - 2)), SkewRatio(xs))]

\* rolling(window=w).kurt(): NaN under 4 observations; a window of equal
\* values gives -3.0 where pandas forces the uniform case and NaN otherwise;
\* otherwise ((n^2 - 1) * m4 / m2^2 - 3 (n-1)^2) / ((n-2)(n-3))
rolling_kurt(s, w) ==
    [t \in DOMAIN s |->
        IF ~(FullWindow(s, w, t) /\ w >= 4) THEN Null
        ELSE LET xs == WindowAt(s, w, t)
             IN  IF Uniform(xs)
                 THEN (IF uniform_forced THEN FInt(-3) ELSE Null)
                 ELSE FDiv(FSub(FMul(FInt(w * w - 1), KurtRatio(xs)),
                                FInt(3 * (w - 1) * (w - 1))),
                           FInt((w - 2) * (w - 3)))]

\* std * np.sqrt(252) on a squared value
Annualize(s) == [t \in DOMAIN s |-> IF IsNull(s[t]) THEN Null ELSE FMul(s[t], FInt(252))]

\* result[name] = vals: replaces the column of that name or appends a new one
SetColumn(fr, nm, vs) ==
    IF HasColumn(fr, nm)
    THEN [index |-> fr.index,
          cols  |-> [j \in DOMAIN fr.cols |->
                       IF fr.cols[j].name = nm THEN [name |-> nm, vals |-> vs]
                       ELSE fr.cols[j]]]
    ELSE [index |-> fr.index, cols |-> Append(fr.cols, [name |-> nm, vals |-> vs])]

Series(fr, nm) == GetColumn(fr, nm).vals

-----------------------------------------------------------------------------
(* FeatureEngineer and EnhancedMarketProcessor *)

\* the rolling window hard-coded in calculate_basic_metrics
BasicWindow == 20

ColName(prefix, p) == prefix \o "_" \o ToString(p)

\* np.log(price.shift(1) / price): the ratio upside down
log_returns_Inverted(price) ==
    [t \in DOMAIN price |-> np_log(CellDiv(shift(price, 1)[t], price[t]))]

\* np.log(price / price.shift(1))
log_returns(price) ==
    [t \in DOMAIN price |-> np_log(CellDiv(price[t], shift(price, 1)[t]))]

\* delta.where(delta > 0, 0) and -delta.where(delta < 0, 0): a NaN delta
\* fails the condition and becomes 0
gain_of(delta) ==
    [t \in DOMAIN delta |->
        IF ~IsNull(delta[t]) /\ FPos(delta[t]) THEN delta[t] ELSE FInt(0)]
\* delta.where(delta < 0, 0) without the minus sign
loss_of_Unnegated(delta) ==
    [t \in DOMAIN delta |->
        IF ~IsNull(delta[t]) /\ FNeg(delta[t]) THEN delta[t] ELSE FInt(0)]
loss_of(delta) ==
    [t \in DOMAIN delta |->
        IF ~IsNull(delta[t]) /\ FNeg(delta[t]) THEN FSub(FInt(0), delta[t]) ELSE FInt(0)]

\* rs = gain / loss; 100 - (100 / (1 + rs)) in float arithmetic: 0/0 is NaN,
\* g/0 is inf for g > 0 and 100 - 100/(1 + inf) is 100
\* a guarded variant: a zero average loss gives 100 outright
rsi_cell_ZeroLossIs100(g, l) ==
    IF IsNull(g) \/ IsNull(l) THEN Null
    ELSE IF l = FInt(0) THEN FInt(100)
    ELSE CellSub(FInt(100), CellDiv(FInt(100), CellAdd(FInt(1), CellDiv(g, l))))
rsi_cell(g, l) ==
    CellSub(FInt(100), CellDiv(FInt(100), CellAdd(FInt(1), CellDiv(g, l))))

rsi(price, p) ==
    LET delta == diff(price)
        gain  == rolling_mean(gain_of(delta), p)
        loss  == rolling_mean(loss_of(delta), p)
    IN  [t \in DOMAIN price |-> rsi_cell(gain[t], loss[t])]

\* price / price.shift(period)
momentum(price, p) == [t \in DOMAIN price |-> CellDiv(price[t], shift(price, p)[t])]

\* the body of "for period in periods", over the periods still to do
RECURSIVE TechnicalLoop(_, _, _)
TechnicalLoop(fr, price_col, ps) ==
    IF ps = << >> THEN fr
    ELSE LET p     == Head(ps)
             price == Series(fr, price_col)
             f1 == SetColumn(fr, ColName("sma", p), rolling_mean(price, p))
             f2 == SetColumn(f1, ColName("volatility", p),
                             Annualize(rolling_std(Series(f1, "returns"), p)))
             f3 == SetColumn(f2, ColName("rsi", p), rsi(Series(f2, price_col), p))
             f4 == SetColumn(f3, ColName("momentum", p),
                             momentum(Series(f3, price_col), p))
         IN  TechnicalLoop(f4, price_col, Tail(ps))

\* FeatureEngineer.calculate_technical_indicators on a copy of fr
calculate_technical_indicators(fr, price_col, ps) ==
    TechnicalLoop(SetColumn(fr, "returns", log_returns(Series(fr, price_col))),
                  price_col, ps)

RECURSIVE StatisticalLoop(_, _, _)
StatisticalLoop(fr, tcol, ws) ==
    IF ws = << >> THEN fr
    ELSE LET w  == Head(ws)
             f1 == SetColumn(fr, ColName("mean", w), rolling_mean(Series(fr, tcol), w))
             f2 == SetColumn(f1, ColName("std", w), rolling_std(Series(f1, tcol), w))
             f3 == SetColumn(f2, ColName("skew", w), rolling_skew(Series(f2, tcol), w))
             f4 == SetColumn(f3, ColName("kurt", w), rolling_kurt(Series(f3, tcol), w))
         IN  StatisticalLoop(f4, tcol, Tail(ws))

\* FeatureEngineer.calculate_statistical_features on a copy of fr
calculate_statistical_features(fr, tcol, ws) == StatisticalLoop(fr, tcol, ws)

\* EnhancedMarketProcessor.calculate_basic_metrics: the columns are assigned
\* on the frame it is given
calculate_basic_metrics(fr) ==
    LET f1 == SetColumn(fr, "returns", log_returns(Series(fr, "Close")))
        f2 == SetColumn(f1, "returns_std", rolling_std(Series(f1, "returns"), BasicWindow))
        f3 == SetColumn(f2, "daily_range",
                [t \in DOMAIN f2.index |->
                    CellSub(Series(f2, "High")[t], Series(f2, "Low")[t])])
        f4 == SetColumn(f3, "gap",
                [t \in DOMAIN f3.index |->
                    CellSub(Series(f3, "Open")[t], shift(Series(f3, "Close"), 1)[t])])
    IN  SetColumn(f4, "volatility",
                  Annualize(rolling_std(Series(f4, "returns"), BasicWindow)))

\* self.required_columns, and those of them a frame lacks
required_columns == {"Open", "High", "Low", "Close", "Volume"}
missing_cols(fr) == {c \in required_columns : ~HasColumn(fr, c)}

\* The diagnostics are computed by scipy and statsmodels; of a diagnostic the
\* model keeps whether it was computed ("computed"), came out as NaN ("nan")
\* or raised ("ValueError").
\* stats.normaltest needs 8 observations: below that it raises ValueError in
\* some scipy releases and returns NaN with a warning in others
NormaltestMinObs == 8
normaltest(xs) == IF Len(xs) < NormaltestMinObs THEN {"ValueError", "nan"} ELSE {"computed"}
\* adfuller raises ValueError when nobs // 2 - 2 < 0 ("sample size is too
\* short") and on missing or infinite data; on a constant series it raises in
\* some statsmodels releases
AdfMinObs == 4
adfuller(xs) ==
    IF Len(xs) < AdfMinObs \/ \E i \in DOMAIN xs : IsInf(xs[i]) THEN {"ValueError"}
    ELSE IF Uniform(xs) THEN {"ValueError", "computed"}
    ELSE {"computed"}

\* EnhancedMarketProcessor.calculate_statistical_metrics: the outcomes it can
\* have on fr. Nothing catches an exception of normaltest or adfuller.
calculate_statistical_metrics(fr) ==
    LET returns == SelectSeq(Series(fr, "returns"), LAMBDA c : ~IsNull(c))
    IN  {IF "ValueError" \in {nt, adf}
         THEN [error |-> "ValueError", stats |-> << >>]
         ELSE [error |-> "none",
               stats |-> [normality |-> nt, stationarity |-> adf,
                          distribution |-> "computed"]] :
            nt \in normaltest(returns), adf \in adfuller(returns)}

\* The columns assigned by add_technical_indicators, in order. Their values
\* come from the ta library and are not modelled: every cell is the token
\* "ta".
TaColumns == <<"sma_20", "ema_20", "adx", "bb_high", "bb_low", "atr", "rsi", "macd",
               "stoch", "volume_sma">>
RECURSIVE AssignTa(_, _)
AssignTa(fr, names) ==
    IF names = << >> THEN fr
    ELSE AssignTa(SetColumn(fr, Head(names), [t \in DOMAIN fr.index |-> "ta"]),
                  Tail(names))
\* ta.trend.adx indexes past the end of its arrays on a frame of fewer than
\* 2 * 14 rows
TaMinRows == 28
\* EnhancedMarketProcessor.add_technical_indicators: the outcomes it can have;
\* the columns are assigned on the frame it is given, so when adx raises the
\* two columns before it are already there
add_technical_indicators(fr) ==
    {[error |-> "none", frame |-> AssignTa(fr, TaColumns)]} \cup
    (IF Len(fr.index) < TaMinRows
     THEN {[error |-> "IndexError", frame |-> AssignTa(fr, SubSeq(TaColumns, 1, 2))]}
     ELSE {})

\* A label of a DatetimeIndex is the number of minutes since the midnight of
\* the first day; index.time is the time of day
MinutesPerDay == 1440
session_time(label) == label % MinutesPerDay
Between(x, lo, hi) == x >= lo /\ x <= hi
\* EnhancedMarketProcessor.add_mexican_market_features, on the frame given
add_mexican_market_features(fr) ==
    LET time == [t \in DOMAIN fr.index |-> session_time(fr.index[t])]
        f1 == SetColumn(fr, "session_time", time)
        f2 == SetColumn(f1, "is_mexico_market_hours",
                [t \in DOMAIN time |-> Between(time[t], 8 * 60 + 30, 15 * 60)])
    IN  SetColumn(f2, "is_high_impact_period",
                [t \in DOMAIN time |->
                    \/ Between(time[t], 8 * 60 + 30, 9 * 60 + 30)
                    \/ Between(time[t], 14 * 60, 15 * 60)])

\* EnhancedMarketProcessor.process_market_data: the outcomes it can have. It
\* works on a copy of fr.
process_market_data(fr, cs, it) ==
    IF missing_cols(fr) # {}
    THEN {[error |-> "ValueError", frame |-> NoFrame, stats |-> << >>]}
    ELSE LET basic == calculate_basic_metrics(fr)
             so == IF cs THEN calculate_statistical_metrics(basic)
                   ELSE {[error |-> "none", stats |-> << >>]}
             to == IF it THEN add_technical_indicators(basic)
                   ELSE {[error |-> "none", frame |-> basic]}
         IN  {IF s.error # "none"
              THEN [error |-> s.error, frame |-> NoFrame, stats |-> << >>]
              ELSE IF t.error # "none"
              THEN [error |-> t.error, frame |-> NoFrame, stats |-> << >>]
              ELSE [error |-> "none", frame |-> add_mexican_market_features(t.frame),
                    stats |-> s.stats] : s \in so, t \in to}

\* comparison of two cells that are numbers or infinities
FLt(a, b) == a[1] * b[2] < b[1] * a[2]
FLe(a, b) == a[1] * b[2] <= b[1] * a[2]
FAbs(a) == <<Abs(a[1]), a[2]>>

\* StandardScaler.fit on one column: mean_ and var_ (population variance)
StandardFit(xs) ==
    LET dv == Deviations(xs)
    IN  [mean_ |-> FDiv(FSum(xs), FInt(Len(xs))),
         var_  |-> FMul(Frac(PowerSum(dv.d, 2), Len(xs)), FMul(dv.unit, dv.unit))]

\* StandardScaler.transform: (x - mean_) / scale_, scale_ = sqrt(var_) or 1
\* for a zero variance; stored as sign(z) * z^2
StandardTransform(sc, xs) ==
    LET scale2 == IF sc.var_ = FInt(0) THEN FInt(1) ELSE sc.var_
    IN  [t \in DOMAIN xs |->
            LET c == FSub(xs[t], sc.mean_) IN FDiv(FMul(c, FAbs(c)), scale2)]

\* pd.cut(x, bins, labels) with right=True: label i for bins[i] < x <= bins[i+1],
\* NaN outside every interval
pd_cut(xs, bins, labels) ==
    [t \in DOMAIN xs |->
        IF \E i \in DOMAIN labels : FLt(bins[i], xs[t]) /\ FLe(xs[t], bins[i + 1])
        THEN labels[CHOOSE i \in DOMAIN labels :
                        FLt(bins[i], xs[t]) /\ FLe(xs[t], bins[i + 1])]
        ELSE Null]

\* bins=[-inf, -0.3, 0.3, inf], labels=['negative', 'neutral', 'positive']
SentimentBins == <<NegInf, Frac(-3, 10), Frac(3, 10), PosInf>>
SentimentLabels == <<"negative", "neutral", "positive">>

\* Series.abs() > Series.std() * 2 (ddof = 1; NaN for a single row, and a
\* comparison with NaN is False); both sides are compared squared
extreme_sentiment(xs) ==
    [t \in DOMAIN xs |->
        Len(xs) >= 2 /\ FLt(FMul(FInt(4), Variance(xs)), FMul(xs[t], xs[t]))]

\* FeatureEngineer.process_sentiment_features on a copy of fr: the frame
\* handed back and the state it leaves in self.scaler (fit_transform refits)
process_sentiment_features(fr, sentiment_col) ==
    LET scores == Series(fr, sentiment_col)
        fitted == StandardFit(scores)
        f1 == SetColumn(fr, sentiment_col \o "_normalized",
                        StandardTransform(fitted, scores))
        f2 == SetColumn(f1, "sentiment_category",
                        pd_cut(scores, SentimentBins, SentimentLabels))
        f3 == SetColumn(f2, "extreme_sentiment", extreme_sentiment(scores))
    IN  [frame |-> f3, scaler |-> fitted]

\* StandardScaler before fit, and the empty diagnostics dict
UnfittedStandard == << >>
NoStats == << >>

\* largest batch of scored news items
MaxBatch == 2
\* the scores a news item can carry, and the batches of scored items (never
\* empty and never with a missing score)
ScoreCells == {Frac(-5, 10), Frac(-3, 10), FInt(0), Frac(3, 10), Frac(5, 10)}
SentimentFrame(vs) ==
    [index |-> [i \in DOMAIN vs |-> i - 1],
     cols  |-> <<[name |-> "sentiment_score", vals |-> vs]>>]
SentimentBatches ==
    UNION {{SentimentFrame(vs) : vs \in [1..n -> ScoreCells]} : n \in 1..MaxBatch}

\* result = fe.calculate_technical_indicators(df, periods=periods)
CalculateTechnicalIndicators ==
    /\ stage = "input"
    /\ HasColumn(df, "usdmxn_fix")
    /\ result' = calculate_technical_indicators(df, "usdmxn_fix", periods)
    /\ stage' = "technical"
    /\ UNCHANGED <<df, fe_args, scaler, stats_dict, error>>
    /\ UNCHANGED me_vars
    /\ UNCHANGED co_vars

\* result = fe.calculate_statistical_features(result, windows=periods): the
\* frame with the returns column is the argument of this call
CalculateStatisticalFeatures ==
    /\ stage = "technical"
    /\ df' = result
    /\ result' = calculate_statistical_features(result, "returns", periods)
    /\ stage' = "statistical"
    /\ UNCHANGED <<fe_args, scaler, stats_dict, error>>
    /\ UNCHANGED me_vars
    /\ UNCHANGED co_vars

\* result = processor.calculate_basic_metrics(df): df itself gets the columns
CalculateBasicMetrics ==
    /\ stage = "input"
    /\ \A c \in {"Open", "High", "Low", "Close"} : HasColumn(df, c)
    /\ df' = calculate_basic_metrics(df)
    /\ result' = df'
    /\ stage' = "basic"
    /\ UNCHANGED <<fe_args, scaler, stats_dict, error>>
    /\ UNCHANGED me_vars
    /\ UNCHANGED co_vars

\* result = fe.process_sentiment_features(batch): the first call is made on
\* the batch in df, a later call on the next batch the caller presents
ProcessSentimentFeatures ==
    /\ stage \in {"scored", "sentiment"}
    /\ \E batch \in (IF stage = "scored" THEN {df} ELSE SentimentBatches) :
          LET out == process_sentiment_features(batch, "sentiment_score")
          IN  /\ df' = batch
              /\ result' = out.frame
              /\ scaler' = out.scaler
    /\ stage' = IF stage = "scored" THEN "sentiment" ELSE "sentiment_next"
    /\ UNCHANGED <<fe_args, stats_dict, error>>
    /\ UNCHANGED me_vars
    /\ UNCHANGED co_vars

\* result, stats = processor.process_market_data(df, calculate_stats,
\* include_technicals)
ProcessMarketData ==
    /\ stage = "input"
    /\ \E out \in process_market_data(df, calculate_stats, include_technicals) :
          /\ error' = out.error
          /\ result' = out.frame
          /\ stats_dict' = out.stats
    /\ stage' = "processed"
    /\ UNCHANGED <<df, fe_args, scaler>>
    /\ UNCHANGED me_vars
    /\ UNCHANGED co_vars

\* stats = processor.calculate_statistical_metrics(df) on the frame that
\* calculate_basic_metrics has filled
CalculateStatisticalMetrics ==
    /\ stage = "basic"
    /\ \E out \in calculate_statistical_metrics(df) :
          /\ error' = out.error
          /\ stats_dict' = out.stats
    /\ stage' = "diagnosed"
    /\ UNCHANGED <<df, result, fe_args, scaler>>
    /\ UNCHANGED me_vars
    /\ UNCHANGED co_vars

\* result = processor.add_technical_indicators(df): df itself gets the columns
AddTechnicalIndicators ==
    /\ stage = "input"
    /\ \A c \in required_columns : HasColumn(df, c)
    /\ \E out \in add_technical_indicators(df) :
          /\ error' = out.error
          /\ df' = out.frame
          /\ result' = IF out.error = "none" THEN out.frame ELSE result
    /\ stage' = "indicators"
    /\ UNCHANGED <<fe_args, scaler, stats_dict>>
    /\ UNCHANGED me_vars
    /\ UNCHANGED co_vars

\* result = processor.add_mexican_market_features(df): df itself gets the
\* columns
AddMexicanMarketFeatures ==
    /\ stage = "input"
    /\ HasColumn(df, "Close")
    /\ df' = add_mexican_market_features(df)
    /\ result' = df'
    /\ stage' = "mexican"
    /\ UNCHANGED <<fe_args, scaler, stats_dict, error>>
    /\ UNCHANGED me_vars
    /\ UNCHANGED co_vars

-----------------------------------------------------------------------------
(* The price frames explored *)

\* longest exhaustively enumerated price series, largest period tried on it
MaxLen == 4
MaxPeriod == 3
\* rows of the exhaustively enumerated OHLCV frames
MaxOhlcvRows == 2
\* rows of the long series that fill the 20-row windows
LongRows == 22

\* longest series holding zero or negative prices
MaxGapLen == 3
\* the flat series: its number of rows and its constant price
FlatRows == 30
FlatPrice == 20

PriceCells == {Null, FInt(1), FInt(2), FInt(4)}
\* prices of a series with gaps: zero and negative quotes among positive ones
GapCells == {FInt(-2), FInt(-1), FInt(0), FInt(1), FInt(2)}
FlatSeries == [t \in 1..FlatRows |-> FInt(FlatPrice)]
FeColumn(nm, vs) == [name |-> nm, vals |-> vs]
PriceFrame(vs) == [index |-> RangeIndex(Len(vs)), cols |-> <<FeColumn("usdmxn_fix", vs)>>]
OhlcvFrame(o, h, l, c) ==
    [index |-> RangeIndex(Len(c)),
     cols  |-> <<FeColumn("Open", o), FeColumn("High", h), FeColumn("Low", l),
                 FeColumn("Close", c),
                 FeColumn("Volume", [t \in DOMAIN c |-> FInt(1)])>>]

\* a long series: a base shape with at most one row replaced
LongBase(k, n) ==
    [t \in 1..n |-> IF k = 0 THEN FInt(2)
                    ELSE IF k = 1 THEN (IF t % 2 = 0 THEN FInt(1) ELSE FInt(2))
                    ELSE (IF (t * t) % 5 = 1 THEN FInt(1) ELSE FInt(2))]
LongSeries ==
    {[t \in 1..LongRows |-> IF t = at THEN v ELSE LongBase(k, LongRows)[t]] :
        k \in 0..2, at \in 0..LongRows, v \in {Null, FInt(4)}}

\* an OHLCV frame without the column c
LackingFrame(c, n) ==
    LET full == OhlcvFrame([t \in 1..n |-> FInt(2)], [t \in 1..n |-> FInt(4)],
                           [t \in 1..n |-> FInt(1)], [t \in 1..n |-> FInt(2)])
    IN  [index |-> full.index,
         cols  |-> SelectSeq(full.cols, LAMBDA col : col.name # c)]

\* intraday frames: two quotes at times of day around the session bounds
SessionTimes == {0, 8 * 60 + 29, 8 * 60 + 30, 9 * 60 + 30, 9 * 60 + 31,
                 14 * 60, 15 * 60, 15 * 60 + 1}
SessionIndexes ==
    {ix \in SessionTimes \X {x + d * MinutesPerDay : x \in SessionTimes, d \in {0, 1}} :
        ix[1] < ix[2]}
SessionFrames ==
    {[index |-> ix,
      cols  |-> OhlcvFrame(<<FInt(1), FInt(2)>>, <<FInt(4), FInt(4)>>,
                           <<FInt(1), FInt(1)>>, <<FInt(2), FInt(1)>>).cols] :
        ix \in SessionIndexes}

MeIdle ==
    /\ technical_data = NoFrame /\ statistical_data = NoFrame
    /\ sentiment_data = << >> /\ target_col = "usdmxn_fix"
    /\ test_size = <<1, 5>> /\ sequence_length = DefaultSequenceLength
    /\ Fresh
    /\ outcome = "pending"

InitPrices ==
    /\ \/ \E n \in 0..MaxLen : \E vs \in [1..n -> PriceCells] :
             /\ df = PriceFrame(vs)
             /\ periods \in {<<p>> : p \in 1..MaxPeriod} \cup {<<2, 3>>}
       \/ \E vs \in LongSeries :
             /\ df = PriceFrame(vs)
             /\ periods = <<5, 10, 20>>
       \/ \E n \in 0..MaxGapLen : \E vs \in [1..n -> GapCells] :
             /\ df = PriceFrame(vs)
             /\ periods \in {<<1>>, <<2>>}
       \/ /\ df = PriceFrame(FlatSeries)
          /\ periods = <<14, 20>>
    /\ calculate_stats = TRUE /\ include_technicals = TRUE
    /\ uniform_forced \in BOOLEAN

InitOhlcv ==
    /\ \/ /\ \/ \E n \in 0..MaxOhlcvRows :
                   \E o \in [1..n -> {FInt(1), FInt(2)}], l \in {FInt(1), FInt(2)},
                      c \in [1..n -> PriceCells] :
                      df = OhlcvFrame(o, [t \in 1..n |-> FInt(4)], [t \in 1..n |-> l], c)
             \/ \E c \in LongSeries :
                   df = OhlcvFrame(c, [t \in 1..LongRows |-> FInt(4)],
                                   [t \in 1..LongRows |-> FInt(1)], c)
          /\ calculate_stats = TRUE /\ include_technicals = TRUE
       \/ /\ \/ \E n \in 0..MaxGapLen : \E c \in [1..n -> GapCells] :
                   df = OhlcvFrame(c, [t \in 1..n |-> FInt(4)],
                                   [t \in 1..n |-> FInt(-2)], c)
             \/ df = OhlcvFrame(FlatSeries, FlatSeries, FlatSeries, FlatSeries)
             \/ \E c \in required_columns, n \in 0..MaxOhlcvRows :
                   df = LackingFrame(c, n)
             \/ df \in SessionFrames
          /\ calculate_stats \in BOOLEAN /\ include_technicals \in BOOLEAN
    /\ periods = << >>
    /\ uniform_forced = FALSE

InitSentiment ==
    /\ df \in SentimentBatches
    /\ periods = << >>
    /\ calculate_stats = TRUE /\ include_technicals = TRUE
    /\ uniform_forced = FALSE

InitFeatures ==
    /\ \/ (InitPrices \/ InitOhlcv) /\ stage = "input"
       \/ InitSentiment /\ stage = "scored"
    /\ result = NoFrame
    /\ scaler = UnfittedStandard /\ stats_dict = NoStats /\ error = "none"
    /\ MeIdle /\ CoIdle

NextFeatures ==
    \/ CalculateTechnicalIndicators
    \/ CalculateStatisticalFeatures
    \/ CalculateBasicMetrics
    \/ ProcessSentimentFeatures
    \/ ProcessMarketData
    \/ CalculateStatisticalMetrics
    \/ AddTechnicalIndicators
    \/ AddMexicanMarketFeatures

SpecFeatures == InitFeatures /\ [][NextFeatures]_vars

-----------------------------------------------------------------------------
(* Claims about the derived columns, checked under SpecFeatures *)

OhlcvNames == {"Open", "High", "Low", "Close", "Volume"}

\* the frame the last call was given (calculate_basic_metrics has since added
\* its columns to that very frame)
CallInput ==
    IF stage = "basic"
    THEN [index |-> df.index,
          cols  |-> SelectSeq(df.cols, LAMBDA c : c.name \in OhlcvNames)]
    ELSE df

\* what the last call returns when given the frame fr instead
CallOn(fr) ==
    IF stage = "technical" THEN calculate_technical_indicators(fr, "usdmxn_fix", periods)
    ELSE IF stage = "statistical" THEN calculate_statistical_features(fr, "returns", periods)
    ELSE calculate_basic_metrics(fr)

Called == stage \in {"technical", "statistical", "basic"}

\* fr cut after row t, and fr with every cell of row r replaced by v
TruncateFrame(fr, t) ==
    [index |-> SubSeq(fr.index, 1, t),
     cols  |-> [j \in DOMAIN fr.cols |->
                 [name |-> fr.cols[j].name, vals |-> SubSeq(fr.cols[j].vals, 1, t)]]]
OverwriteRow(fr, r, v) ==
    [index |-> fr.index,
     cols  |-> [j \in DOMAIN fr.cols |->
                 [name |-> fr.cols[j].name,
                  vals |-> [i \in DOMAIN fr.cols[j].vals |->
                              IF i = r THEN v ELSE fr.cols[j].vals[i]]]]]

\* input frames that agree with fr on rows 1..t: fr cut after row t, and fr
\* with one of the next two rows overwritten
AgreeingInputs(fr, t) ==
    {TruncateFrame(fr, t)} \cup
    {OverwriteRow(fr, r, v) :
        r \in {i \in {t + 1, t + 2} : i <= Len(fr.index)}, v \in {Null, FInt(4)}}

\* the first row (numbered from 1) at which a column can hold a value: the
\* rows its window needs
MinRows(kind, p) ==
    IF kind \in {"sma", "rsi"} THEN p
    ELSE IF kind \in {"momentum", "mean"} THEN p + 1
    ELSE IF kind \in {"volatility", "std"} THEN (IF p < 2 THEN 3 ELSE p + 1)
    ELSE IF kind = "skew" THEN (IF p < 3 THEN 4 ELSE p + 1)
    ELSE (IF p < 4 THEN 5 ELSE p + 1)

NullBefore(fr, nm, first) ==
    \A t \in DOMAIN fr.index : t < first => IsNull(Series(fr, nm)[t])

\* C9: every derived column is causal: its value at row t is the same for any
\* two inputs that agree on the rows up to t (a cut-off input, or an input
\* with a later row overwritten); and every indicator is null on the rows
\* before its window is filled.
C9_DerivedColumnsCausal ==
    Called =>
        /\ \A t \in DOMAIN result.index :
             \A alt \in AgreeingInputs(CallInput, t) :
                LET out == CallOn(alt)
                IN  \A j \in DOMAIN result.cols :
                       out.cols[j].vals[t] = result.cols[j].vals[t]
        /\ stage = "technical" =>
             /\ NullBefore(result, "returns", 2)
             /\ \A k \in DOMAIN periods :
                  \A kind \in {"sma", "volatility", "rsi", "momentum"} :
                     NullBefore(result, ColName(kind, periods[k]),
                                MinRows(kind, periods[k]))
        /\ stage = "statistical" =>
             \A k \in DOMAIN periods :
                \A kind \in {"mean", "std", "skew", "kurt"} :
                   NullBefore(result, ColName(kind, periods[k]),
                              MinRows(kind, periods[k]))
        /\ stage = "basic" =>
             /\ NullBefore(result, "returns", 2)
             /\ NullBefore(result, "gap", 2)
             /\ NullBefore(result, "returns_std", BasicWindow + 1)
             /\ NullBefore(result, "volatility", BasicWindow + 1)

LastCell(fr, nm) == Series(fr, nm)[Len(fr.index)]

C9_Witness ==
    /\ stage = "statistical"
    /\ Len(result.index) >= 4
    /\ \E k \in DOMAIN periods :
          /\ ~IsNull(LastCell(result, ColName("skew", periods[k])))
          /\ ~IsNull(LastCell(result, ColName("rsi", periods[k])))
          /\ LastCell(result, ColName("skew", periods[k])) # FInt(0)
          /\ LastCell(result, ColName("momentum", periods[k])) # FInt(1)

\* the price series read by the last call, and the rolling-volatility columns
\* it produced with their window sizes
PricesRead == Series(df, IF stage = "basic" THEN "Close" ELSE "usdmxn_fix")
ValidPrices == \A t \in DOMAIN PricesRead : Finite(PricesRead[t]) /\ FPos(PricesRead[t])
VolatilityColumns ==
    IF stage = "technical"
    THEN {<<ColName("volatility", periods[k]), periods[k]>> : k \in DOMAIN periods}
    ELSE IF stage = "basic" THEN {<<"volatility", BasicWindow>>}
    ELSE {}

\* C10 as stated (taken for the window sizes W >= 2 alone): the rolling
\* volatility is null for the first W - 1 rows and non-null and non-negative
\* on every later row.
C10_NullForFirstWMinus1Rows ==
    (Called /\ ValidPrices) =>
        \A c \in {x \in VolatilityColumns : x[2] >= 2} :
            \A t \in DOMAIN result.index :
                LET v == Series(result, c[1])[t]
                IN  IF t <= c[2] - 1 THEN IsNull(v) ELSE ~IsNull(v) /\ v[1] >= 0

\* C10 amended: for every window size W >= 2 and non-null, positive prices the
\* rolling volatility is null for the first W rows and non-null and
\* non-negative on every later row; for W = 1 it is null on every row.
C10_NullForFirstWRows ==
    (Called /\ ValidPrices) =>
        \A c \in VolatilityColumns :
            \A t \in DOMAIN result.index :
                LET v == Series(result, c[1])[t]
                IN  IF t <= c[2] \/ c[2] = 1 THEN IsNull(v) ELSE ~IsNull(v) /\ v[1] >= 0

C10_Witness ==
    /\ stage = "technical"
    /\ ValidPrices
    /\ \E c \in VolatilityColumns :
          /\ c[2] >= 2
          /\ Len(result.index) >= c[2] + 2
          /\ LastCell(result, c[1]) # Null
          /\ LastCell(result, c[1])[1] > 0
          /\ IsNull(Series(result, c[1])[c[2]])

\* 2^k, k >= 0
RECURSIVE Pow2(_)
Pow2(k) == IF k = 0 THEN 1 ELSE 2 * Pow2(k - 1)

\* the call made computes the returns column from a price column
ReturnsComputed == stage \in {"technical", "basic"}
Positive(c) == Finite(c) /\ FPos(c)

\* C11: the first return is null, and at every later row whose price and
\* previous price are positive the return is non-null and is the logarithm
\* of price[t] / price[t-1]: with the return r counted in units of ln 2,
\* price[t] = price[t-1] * 2^r.
C11_ReturnsAreLogRatios ==
    ReturnsComputed =>
        LET price == PricesRead
            ret   == Series(result, "returns")
        IN  \A t \in DOMAIN price :
               IF t = 1 THEN IsNull(ret[t])
               ELSE (Positive(price[t]) /\ Positive(price[t - 1])) =>
                       /\ Finite(ret[t])
                       /\ ret[t][2] = 1
                       /\ IF ret[t][1] >= 0
                          THEN price[t] = FMul(price[t - 1], FInt(Pow2(ret[t][1])))
                          ELSE price[t - 1] = FMul(price[t], FInt(Pow2(-ret[t][1])))

C11_Witness ==
    /\ ReturnsComputed
    /\ ValidPrices
    /\ \E t, u \in DOMAIN result.index :
          /\ Series(result, "returns")[t] = FInt(2)
          /\ Series(result, "returns")[u] = FInt(-1)

\* C12: at a row where the price or the previous price is zero or negative
\* the return is null.
C12_NonPositivePriceGivesNullReturn ==
    ReturnsComputed =>
        LET price == PricesRead
            ret   == Series(result, "returns")
        IN  \A t \in DOMAIN price :
               (/\ t > 1
                /\ Finite(price[t]) /\ Finite(price[t - 1])
                /\ (~FPos(price[t]) \/ ~FPos(price[t - 1]))) => IsNull(ret[t])

\* the rsi_p columns of the frame handed back, with their periods
RsiColumns == {<<ColName("rsi", periods[k]), periods[k]>> : k \in DOMAIN periods}

\* no price falls within the p price changes that end at row t (t > p, so
\* that all p changes exist), and every price involved is a number
NoLossWindow(price, p, t) ==
    /\ t > p
    /\ \A i \in (t - p)..t : Finite(price[i])
    /\ \A i \in (t - p + 1)..t : ~FNeg(FSub(price[i], price[i - 1]))

\* C13: wherever the average loss over the trailing p rows is zero, a flat
\* window included, rsi_p is exactly 100.
C13_ZeroLossGivesRsi100 ==
    stage = "technical" =>
        \A c \in RsiColumns :
            \A t \in DOMAIN result.index :
                NoLossWindow(Series(df, "usdmxn_fix"), c[2], t) =>
                    Series(result, c[1])[t] = FInt(100)

\* C14: every non-null rsi_p value lies in the closed interval [0, 100],
\* whatever the period and the prices (gaps, zero and negative quotes
\* included).
C14_RsiWithin0And100 ==
    stage = "technical" =>
        \A c \in RsiColumns :
            \A t \in DOMAIN result.index :
                LET v == Series(result, c[1])[t]
                IN  IsNull(v) \/ (Finite(v) /\ v[1] >= 0 /\ v[1] <= 100 * v[2])

C14_Witness ==
    /\ stage = "technical"
    /\ \E c \in RsiColumns :
          LET r == Series(result, c[1])
          IN  /\ \E t \in DOMAIN r : r[t] = FInt(0)
              /\ \E t \in DOMAIN r : r[t] = FInt(100)
              /\ \E t \in DOMAIN r : Finite(r[t]) /\ r[t][1] > 0 /\ r[t][1] < 100 * r[t][2]

\* the call was made on the flat series
FlatCall == ReturnsComputed /\ PricesRead = FlatSeries

\* C15: on the flat series (FlatRows closes, all FlatPrice) the first return
\* is null and every other return is 0; the 20-row rolling volatility is 0 at
\* every row from row 20 (counted from 0) onward; rsi_14 is computed without
\* an exception and each of its cells is undefined (null) or the neutral 50.
C15_FlatSeriesScenario ==
    FlatCall =>
        /\ \A t \in DOMAIN result.index :
              Series(result, "returns")[t] = IF t = 1 THEN Null ELSE FInt(0)
        /\ \A c \in {x \in VolatilityColumns : x[2] = 20} :
              \A t \in DOMAIN result.index :
                 t >= 21 => Series(result, c[1])[t] = FInt(0)
        /\ stage = "technical" =>
              /\ HasColumn(result, "rsi_14")
              /\ \A t \in DOMAIN result.index :
                    Series(result, "rsi_14")[t] \in {Null, FInt(50)}

C15_Witness ==
    /\ FlatCall
    /\ stage = "technical"
    /\ Len(result.index) = FlatRows
    /\ LastCell(result, "volatility_20") = FInt(0)
    /\ LastCell(result, "rsi_14") = Null
    /\ LastCell(result, "sma_14") = FInt(FlatPrice)

\* process_sentiment_features has been called on the batch in df
Scored == stage \in {"sentiment", "sentiment_next"}

\* C16: every item gets exactly one category: negative for a score <= -0.3,
\* positive for a score >= 0.3, neutral otherwise, the two boundary scores
\* included.
C16_CategoryBoundaries ==
    Scored =>
        \A t \in DOMAIN result.index :
            LET score == Series(df, "sentiment_score")[t]
            IN  Series(result, "sentiment_category")[t] =
                    IF FLe(score, Frac(-3, 10)) THEN "negative"
                    ELSE IF FLe(Frac(3, 10), score) THEN "positive"
                    ELSE "neutral"

\* C17: once the normalization parameters are fitted, processing a further
\* batch leaves them unchanged and normalizes that batch with them.
C17_FittedParametersReused ==
    [][(scaler # UnfittedStandard /\ stage' = "sentiment_next") =>
          /\ scaler' = scaler
          /\ Series(result', "sentiment_score_normalized")
                = StandardTransform(scaler, Series(df', "sentiment_score"))]_vars

\* the diagnostics a report holds
DiagnosticNames == {"normality", "stationarity", "distribution"}

\* C19: a diagnostic that cannot be computed is a null or absent entry and
\* never an abort: calculate_statistical_metrics hands back a report (a
\* mapping with diagnostic names only), and process_market_data, given a
\* frame with all required columns and asked for statistics only, hands back
\* the processed frame. (Taken for frames of two rows or more, which hold a
\* return to diagnose.)
C19_DiagnosticFailureIsNotAbort ==
    /\ (stage = "diagnosed" /\ Len(df.index) >= 2) =>
          /\ error = "none"
          /\ DOMAIN stats_dict \subseteq DiagnosticNames
    /\ (/\ stage = "processed"
        /\ missing_cols(df) = {} /\ Len(df.index) >= 2
        /\ calculate_stats /\ ~include_technicals) =>
          /\ error = "none"
          /\ HasColumn(result, "returns")
          /\ Len(result.index) = Len(df.index)

\* C20: no call changes the frame it is given: whatever is called on the
\* frame df, df has the same columns and the same values afterwards. (Taken
\* for frames that hold a row.)
C20_InputFrameUnchanged ==
    [][(stage \in {"input", "basic", "scored"} /\ df.index # << >>) => (df' = df)]_vars

-----------------------------------------------------------------------------
(* MarketDataCollector.get_yahoo_data                                      *)
(*                                                                         *)
(* The price service is outside the program: what it answers for a ticker  *)
(* is an input, [raises, status_code, data]. raises: requests.get raised a *)
(* RequestException. data: the decoded JSON, << >> when empty, otherwise   *)
(* the frame DataFrame.from_dict(data, orient='index') builds from it, its *)
(* index (timestamps, as whole numbers) in the order the service sent.     *)

\* dfs[ticker] = df on a dict kept as a sequence of [ticker, frame] in
\* insertion order: a key already there keeps its place
DictSet(dfs, ticker, fr) ==
    IF \E k \in DOMAIN dfs : dfs[k].ticker = ticker
    THEN [k \in DOMAIN dfs |->
            IF dfs[k].ticker = ticker THEN [ticker |-> ticker, frame |-> fr] ELSE dfs[k]]
    ELSE Append(dfs, [ticker |-> ticker, frame |-> fr])

\* the body of "for ticker in tickers", over the tickers still to do: a
\* ticker is left out when the request raises, the status is not 200, the
\* data is empty or a required column is missing
RECURSIVE YahooLoop(_, _, _)
YahooLoop(ts, resp, dfs) ==
    IF ts = << >> THEN dfs
    ELSE LET ticker == Head(ts)
             r == resp[ticker]
         IN  IF r.raises \/ r.status_code # 200 \/ r.data = << >>
             THEN YahooLoop(Tail(ts), resp, dfs)
             ELSE IF \A col \in required_columns : HasColumn(r.data, col)
             THEN YahooLoop(Tail(ts), resp, DictSet(dfs, ticker, r.data))
             ELSE YahooLoop(Tail(ts), resp, dfs)

\* s without the repetitions of its elements, first occurrences kept
RECURSIVE Dedup(_)
Dedup(s) ==
    IF s = << >> THEN << >>
    ELSE LET init == Dedup(SubSeq(s, 1, Len(s) - 1))
         IN  IF s[Len(s)] \in Range(init) THEN init ELSE Append(init, s[Len(s)])

\* pd.concat(dfs, axis=1) of a dict: the columns are named (ticker, column),
\* the index is the union of the indexes and a cell without an observation is
\* NaN. Equal indexes are kept as they are; for unequal ones the union comes
\* out sorted in some pandas releases and in order of appearance in others.
concat_keys(dfs, sorted) ==
    LET first  == dfs[1].frame.index
        all    == Flatten([k \in DOMAIN dfs |-> dfs[k].frame.index])
        index  == IF \A k \in DOMAIN dfs : dfs[k].frame.index = first THEN first
                  ELSE IF sorted THEN SortedSeq(Range(all))
                  ELSE Dedup(all)
        Reindex(d, c) ==
            [name |-> <<d.ticker, c.name>>,
             vals |-> [r \in DOMAIN index |->
                         IF index[r] \in Range(d.frame.index)
                         THEN c.vals[Pos(d.frame.index, index[r])]
                         ELSE Null]]
    IN  [index |-> index,
         cols  |-> Flatten([k \in DOMAIN dfs |->
                     [j \in DOMAIN dfs[k].frame.cols |->
                         Reindex(dfs[k], dfs[k].frame.cols[j])]])]

\* MarketDataCollector.get_yahoo_data
get_yahoo_data(ts, resp, sorted) ==
    LET dfs == YahooLoop(ts, resp, << >>)
    IN  IF dfs # << >> THEN concat_keys(dfs, sorted) ELSE NoFrame

\* data = collector.get_yahoo_data(tickers, start_date, end_date)
GetYahooData ==
    /\ yahoo_outcome = "pending"
    /\ \E sorted \in BOOLEAN : yahoo_data' = get_yahoo_data(tickers, responses, sorted)
    /\ yahoo_outcome' = "returned"
    /\ UNCHANGED <<tickers, responses>>
    /\ UNCHANGED me_vars
    /\ UNCHANGED fe_vars

\* most tickers asked for in one call
MaxTickers == 2
TickerNames == {"MXN=X", "^MXX"}
OhlcvOrder == <<"Open", "High", "Low", "Close", "Volume">>
\* the frame built from a ticker's JSON: one value per timestamp and column
YahooFrame(ix, names) ==
    [index |-> ix,
     cols  |-> [j \in DOMAIN names |->
                 [name |-> names[j], vals |-> [r \in DOMAIN ix |-> Some(10 * ix[r] + j)]]]]
YahooFrames ==
    {YahooFrame(ix, names) :
        ix \in {<<1>>, <<1, 2>>, <<2, 1>>, <<2, 3>>},
        names \in {OhlcvOrder, SubSeq(OhlcvOrder, 1, 4)}}
Responses ==
    {[raises |-> TRUE, status_code |-> 0, data |-> << >>],
     [raises |-> FALSE, status_code |-> 500, data |-> << >>],
     [raises |-> FALSE, status_code |-> 200, data |-> << >>]} \cup
    {[raises |-> FALSE, status_code |-> 200, data |-> fr] : fr \in YahooFrames}

InitCollector ==
    /\ \E n \in 0..MaxTickers : tickers \in [1..n -> TickerNames]
    /\ responses \in [TickerNames -> Responses]
    /\ yahoo_data = NoFrame
    /\ yahoo_outcome = "pending"
    /\ MeIdle /\ FeIdle

NextCollector == GetYahooData

SpecCollector == InitCollector /\ [][NextCollector]_vars

\* the tickers asked for whose data arrived without a required column
LackingTickers ==
    {tickers[i] : i \in {k \in DOMAIN tickers :
        LET r == responses[tickers[k]]
        IN  /\ ~r.raises /\ r.status_code = 200 /\ r.data # << >>
            /\ \E col \in required_columns : ~HasColumn(r.data, col)}}

\* C18: a price source that lacks a required column makes the operation that
\* receives it fail: get_yahoo_data does not hand back a frame when the data
\* fetched for one of its tickers lacks a required column. (The other half,
\* process_market_data on a frame, is ProcessMarketDataRejects below.)
C18_LackingTickerFails ==
    (yahoo_outcome # "pending" /\ LackingTickers # {}) => yahoo_outcome # "returned"

\* process_market_data raises ValueError on a frame lacking a required column
ProcessMarketDataRejects ==
    (stage = "processed" /\ missing_cols(df) # {}) =>
        error = "ValueError" /\ result = NoFrame

\* the tickers whose data get_yahoo_data took into the frame it builds
ValidatedTickers ==
    {tickers[i] : i \in {k \in DOMAIN tickers :
        LET r == responses[tickers[k]]
        IN  /\ ~r.raises /\ r.status_code = 200 /\ r.data # << >>
            /\ \A col \in required_columns : HasColumn(r.data, col)}}

\* the timestamps at which some validated ticker has an observation
UnionOfTimestamps == UNION {Range(responses[t].data.index) : t \in ValidatedTickers}

\* every column of the frame is a (ticker, column) of a validated ticker, every
\* column of a validated ticker is there, and each cell is the ticker's value
\* at the row's timestamp, or NaN when the ticker has none there
QualifiedAndMarked ==
    /\ \A j \in DOMAIN yahoo_data.cols :
          /\ Len(yahoo_data.cols[j].name) = 2
          /\ yahoo_data.cols[j].name[1] \in ValidatedTickers
    /\ \A t \in ValidatedTickers : \A c \in DOMAIN responses[t].data.cols :
          LET src == responses[t].data
          IN  \E j \in DOMAIN yahoo_data.cols :
                /\ yahoo_data.cols[j].name = <<t, src.cols[c].name>>
                /\ \A r \in DOMAIN yahoo_data.index :
                      yahoo_data.cols[j].vals[r] =
                         IF yahoo_data.index[r] \in Range(src.index)
                         THEN src.cols[c].vals[Pos(src.index, yahoo_data.index[r])]
                         ELSE Null

\* C22: the frame get_yahoo_data builds from the validated tickers has as its
\* index the union of their timestamps, ascending and without duplicates, has
\* (ticker, column) column names, and holds NaN, never another value, where a
\* ticker has no observation at a timestamp
C22_IndexIsSortedUnion ==
    (yahoo_outcome = "returned" /\ ValidatedTickers # {}) =>
        /\ Range(yahoo_data.index) = UnionOfTimestamps
        /\ \A a, b \in DOMAIN yahoo_data.index :
              a < b => yahoo_data.index[a] < yahoo_data.index[b]
        /\ QualifiedAndMarked

\* what of it holds: the index is the union without duplicates, the names are
\* qualified and a missing observation is NaN
YahooFrameIsUnion ==
    (yahoo_outcome = "returned" /\ ValidatedTickers # {}) =>
        /\ Range(yahoo_data.index) = UnionOfTimestamps
        /\ \A a, b \in DOMAIN yahoo_data.index :
              a # b => yahoo_data.index[a] # yahoo_data.index[b]
        /\ QualifiedAndMarked

-----------------------------------------------------------------------------
(* Claims about the scaler pair, checked under SpecLifecycle *)

\* the matrices the last prepare_data call handed to the two scalers
TargetMatrix ==
    Values([index |-> features.index, cols |-> <<GetColumn(features, target_col)>>])
FeatureMatrix == Values(drop_column(features, target_col))
AsFractions(M) == [r \in DOMAIN M |-> [j \in DOMAIN M[r] |-> Frac(M[r][j], 1)]]

\* evaluate_model handed back the unscaled predictions for the test_data of
\* the call that fitted the scalers now held
EvaluatedOnOwnTestData ==
    /\ outcome = "returned"
    /\ eval_outcome = "returned" /\ eval_args # << >>
    /\ eval_args.return_predictions
    /\ eval_args.calls = Len(history)
    /\ eval_args.test_data = test_data

\* C21: scaling the target matrix or the feature matrix with the parameters
\* prepare_data fitted and inverse-scaling the result with the same parameters
\* gives back the original values, also in a column whose values are all
\* equal; so a prediction equal to the scaled target comes back from
\* evaluate_model as the original target of its row
C21_ScaleThenInverseIsIdentity ==
    /\ outcome = "returned" =>
          /\ y_scaled = MinMaxTransform(scalers.target[1], TargetMatrix)
          /\ X_scaled = MinMaxTransform(scalers.features[1], FeatureMatrix)
          /\ MinMaxInverseTransform(scalers.target[1], y_scaled) = AsFractions(TargetMatrix)
          /\ MinMaxInverseTransform(scalers.features[1], X_scaled)
                = AsFractions(FeatureMatrix)
    /\ (EvaluatedOnOwnTestData /\ predictions = test_data.y) =>
          \A i \in DOMAIN predictions :
             predictions_unscaled[i] =
                AsFractions(TargetMatrix)[Len(train_data.X) + sequence_length + i]

\* a constant target column beside a non-constant feature column went through:
\* the scaled target was predicted and came back as the original number
C21_Witness ==
    /\ EvaluatedOnOwnTestData
    /\ predictions = test_data.y /\ predictions # << >>
    /\ scalers.target[1].data_min[1] = scalers.target[1].data_max[1]
    /\ scalers.target[1].data_min[1] # 0
    /\ scalers.features[1].data_min[1] # scalers.features[1].data_max[1]

\* the scaler pair a record h of prepare_data calls leaves in self.scalers:
\* none before the first call; a call that ended at the target lookup changes
\* nothing; a call that ended in the fit leaves two unfitted scalers; a call
\* that returned leaves the fit of its own matrices
RECURSIVE ScalersAfter(_)
ScalersAfter(h) ==
    IF h = << >> THEN [features |-> << >>, target |-> << >>]
    ELSE LET c == h[Len(h)]
             y == Values([index |-> c.features.index,
                          cols |-> <<GetColumn(c.features, c.target_col)>>])
             X == Values(drop_column(c.features, c.target_col))
         IN  IF c.outcome = "KeyError" THEN ScalersAfter(SubSeq(h, 1, Len(h) - 1))
             ELSE IF c.outcome = "ValueError"
             THEN [features |-> <<Unfitted>>, target |-> <<Unfitted>>]
             ELSE [features |-> <<MinMaxFit(X, Len(c.features.cols) - 1)>>,
                   target   |-> <<MinMaxFit(y, 1)>>]

\* the fitted parameters held in a scaler pair
FittedIn(sc) ==
    {q \in Range(sc.features) \cup Range(sc.target) : q.fitted}

\* how an evaluate_model call asking for predictions must have ended, given
\* the scaler pair sc held when it ran
EvaluatedWith(sc) ==
    \/ eval_outcome = "AttributeError" /\ predictions_unscaled = << >>
    \/ /\ sc.target = << >>
       /\ eval_outcome = "KeyError" /\ predictions_unscaled = << >>
    \/ /\ sc.target # << >> /\ ~sc.target[1].fitted
       /\ eval_outcome = "NotFittedError" /\ predictions_unscaled = << >>
    \/ /\ sc.target # << >> /\ sc.target[1].fitted
       /\ eval_outcome = "returned"
       /\ predictions_unscaled = MinMaxInverseTransform(sc.target[1], predictions)

=============================================================================
